---------------------------- MODULE Spec2Model ----------------------------
(***************************************************************************)
(* Model of main.py: the current-affairs scraper that formats a quiz page, *)
(* splits it into Telegram messages, publishes them to an English and a    *)
(* Gujarati channel, and records processed pages in a MongoDB collection.  *)
(*                                                                         *)
(* Strings.  A Python str is modelled run-length encoded: a sequence of    *)
(* runs <<c, n>>, n >= 1 copies of the character c, adjacent runs holding  *)
(* different characters.  Two strings are equal iff their encodings are.   *)
(* Characters are written as TLA+ strings: the reserved punctuation of     *)
(* escape_markdown stands for itself ("bq" for the backquote), "nl" is    *)
(* the newline, "bs" the backslash, " " the space, "a" any other one-byte  *)
(* character, and "u2", "u3", "u4" a code point whose UTF-8 form takes 2,  *)
(* 3 or 4 bytes.  The letters of the words translate_message looks for     *)
(* have characters of their own: nine "q" are "Question:", seven "c", a    *)
(* space and seven "n" are "Correct Answer:", twelve "e" "Explanation:".   *)
(***************************************************************************)
EXTENDS Integers, Sequences, FiniteSets, TLC

VARIABLES
    \* one call of smart_split_message
    segments,        \* the segments the body was built from (without separator)
    message,         \* argument message
    footer,          \* argument footer
    max_length,      \* argument max_length
    split_messages,  \* the returned list
    returned         \* whether the call has returned

VARIABLES
    \* one execution of the script after another
    pc,                      \* position in the script
    error,                   \* the exception that ended the execution, or "none"
    ledger,                  \* urls held by the collection processed_urls
    collection,              \* what get_mongo_collection returned
    links,                   \* hrefs of the links found on the main page
    link_idx,                \* position of the loop over links
    outcomes,                \* how each link visited so far ended
    \* locals of process_current_affairs_url for the page at links[i]
    soup,                    \* the bix-div-container elements of the parsed page
    message_english,         \* what extract_question_data returned
    english_messages,        \* chunks of the English message
    english_message_links,   \* post links collected by the first loop
    en_idx,                  \* position of the first loop (English channel)
    gu_idx,                  \* position of the second loop (Gujarati channel)
    log,                     \* calls of send_telegram_message made for the page
    translation_errs,        \* per chunk, the sections on which the translator raised
    gujarati_messages        \* the texts built by lines 275-280 for the Gujarati channel

chunkerVars == <<segments, message, footer, max_length, split_messages, returned>>

pageVars == <<soup, message_english, english_messages, english_message_links,
              en_idx, gu_idx, log>>

textVars == <<translation_errs, gujarati_messages>>

runVars == <<pc, error, ledger, collection, links, link_idx, outcomes>>

vars == <<chunkerVars, runVars, pageVars, textVars>>

-----------------------------------------------------------------------------
(* Python str operations on the run-length encoding *)

Empty == <<>>

\* n copies of character c
Rep(c, n) == IF n = 0 THEN Empty ELSE << <<c, n>> >>

\* s + t
Cat(s, t) ==
    IF s = <<>> THEN t
    ELSE IF t = <<>> THEN s
    ELSE IF s[Len(s)][1] = t[1][1]
         THEN SubSeq(s, 1, Len(s) - 1) \o << <<t[1][1], s[Len(s)][2] + t[1][2]>> >> \o Tail(t)
         ELSE s \o t

\* len(s[lo-1:hi]) in runs: the code points of runs lo..hi
RECURSIVE RunsLen(_, _, _)
RunsLen(s, lo, hi) ==
    IF lo > hi THEN 0
    ELSE IF lo = hi THEN s[lo][2]
    ELSE LET mid == (lo + hi) \div 2 IN RunsLen(s, lo, mid) + RunsLen(s, mid + 1, hi)

\* len(s): the number of code points
len(s) == RunsLen(s, 1, Len(s))

\* bytes of one character in UTF-8
Utf8Width(c) == CASE c = "u2" -> 2 [] c = "u3" -> 3 [] c = "u4" -> 4 [] OTHER -> 1

RECURSIVE RunsUtf8Len(_, _, _)
RunsUtf8Len(s, lo, hi) ==
    IF lo > hi THEN 0
    ELSE IF lo = hi THEN s[lo][2] * Utf8Width(s[lo][1])
    ELSE LET mid == (lo + hi) \div 2 IN RunsUtf8Len(s, lo, mid) + RunsUtf8Len(s, mid + 1, hi)

\* len(s.encode("utf-8"))
utf8_len(s) == RunsUtf8Len(s, 1, Len(s))

\* bool(s.strip()): s holds a character that is not whitespace
strip_nonempty(s) == \E i \in 1..Len(s) : s[i][1] \notin {" ", "nl"}

\* s.endswith(t)
EndsWith(s, t) ==
    \/ t = <<>>
    \/ /\ Len(s) >= Len(t)
       /\ LET k == Len(s) - Len(t) + 1 IN
          /\ s[k][1] = t[1][1]
          /\ s[k][2] >= t[1][2]
          /\ SubSeq(s, k + 1, Len(s)) = Tail(t)

\* s[:len(s) - len(t)] for s.endswith(t)
StripSuffix(s, t) ==
    IF t = <<>> THEN s
    ELSE LET k == Len(s) - Len(t) + 1 IN
         Cat(SubSeq(s, 1, k - 1), Rep(s[k][1], s[k][2] - t[1][2]))

\* the concatenation of a list of strings
RECURSIVE Join(_)
Join(list) == IF list = <<>> THEN Empty ELSE Cat(Head(list), Join(Tail(list)))

-----------------------------------------------------------------------------
(* smart_split_message *)

SepDashes == 38
SepNewlines == 2

\* "--------------------------------------\n\n"
Separator == << <<"-", SepDashes>>, <<"nl", SepNewlines>> >>

\* message.split(Separator): the separator is a run of hyphens followed by a
\* run of newlines, so its leftmost occurrence ends the first hyphen run of
\* at least 38 that is followed by at least 2 newlines; occurrences cannot
\* overlap.
RECURSIVE str_split(_)
str_split(s) ==
    LET hits == {i \in 1..(Len(s) - 1) :
                    /\ s[i][1] = "-" /\ s[i][2] >= SepDashes
                    /\ s[i + 1][1] = "nl" /\ s[i + 1][2] >= SepNewlines}
    IN IF hits = {} THEN << s >>
       ELSE LET i == CHOOSE h \in hits : \A g \in hits : h <= g
                before == Cat(SubSeq(s, 1, i - 1), Rep("-", s[i][2] - SepDashes))
                after == Cat(Rep("nl", s[i + 1][2] - SepNewlines), SubSeq(s, i + 2, Len(s)))
            IN << before >> \o str_split(after)

\* the loop with the footer left off the chunks it closes
RECURSIVE split_loop_footer_on_last(_, _, _, _, _)
split_loop_footer_on_last(blocks, out, current_message, maxlen, foot) ==
    IF blocks = <<>> THEN [split_messages |-> out, current_message |-> current_message]
    ELSE LET block == Head(blocks) IN
         IF len(current_message) + len(block) + len(foot) <= maxlen
         THEN split_loop_footer_on_last(Tail(blocks), out,
                         Cat(Cat(current_message, block), Separator), maxlen, foot)
         ELSE split_loop_footer_on_last(Tail(blocks), Append(out, current_message),
                         Cat(block, Separator), maxlen, foot)

\* the for loop over blocks (lines 150-155)
RECURSIVE split_loop(_, _, _, _, _)
split_loop(blocks, out, current_message, maxlen, foot) ==
    IF blocks = <<>> THEN [split_messages |-> out, current_message |-> current_message]
    ELSE LET block == Head(blocks) IN
         IF len(current_message) + len(block) + len(foot) <= maxlen
         THEN split_loop(Tail(blocks), out,
                         Cat(Cat(current_message, block), Separator), maxlen, foot)
         ELSE split_loop(Tail(blocks), Append(out, Cat(current_message, foot)),
                         Cat(block, Separator), maxlen, foot)

smart_split_message(msg, maxlen, foot) ==
    IF len(msg) + len(foot) <= maxlen THEN << Cat(msg, foot) >>
    ELSE LET r == split_loop(str_split(msg), <<>>, Empty, maxlen, foot) IN
         IF strip_nonempty(r.current_message)
         THEN Append(r.split_messages, Cat(r.current_message, foot))
         ELSE r.split_messages

-----------------------------------------------------------------------------
(* escape_markdown (version "v2", the only one the script uses) *)

\* escape_chars, the eighteen reserved characters of MarkdownV2 ("bq" is the
\* backquote)
EscapeChars ==
    {"_", "*", "[", "]", "(", ")", "~", "bq", ">", "#", "+", "-", "=", "|",
     "{", "}", ".", "!"}

\* n copies of the character c, each behind a backslash
EscapeRun(c, n) ==
    [p \in 1..(2 * n) |-> IF p % 2 = 1 THEN <<"bs", 1>> ELSE <<c, 1>>]

\* the runs lo..hi of text, escaped
RECURSIVE EscapeRuns(_, _, _)
EscapeRuns(s, lo, hi) ==
    IF lo > hi THEN Empty
    ELSE IF lo = hi
         THEN (IF s[lo][1] \in EscapeChars THEN EscapeRun(s[lo][1], s[lo][2]) ELSE << s[lo] >>)
    ELSE LET mid == (lo + hi) \div 2 IN
         Cat(EscapeRuns(s, lo, mid), EscapeRuns(s, mid + 1, hi))

escape_markdown(text) == EscapeRuns(text, 1, Len(text))

-----------------------------------------------------------------------------
(* extract_question_data.  The parsed page is the list of its               *)
(* bix-div-container elements; a container is a record                      *)
(*   has_question  whether it holds a bix-td-qtxt element                   *)
(*   question_text that element's text, stripped                            *)
(*   correct_answer the value of the jq-hdnakq input, "" when absent        *)
(*   options       the stripped texts of its bix-td-option-val elements     *)
(*   has_explanation, explanation  the bix-ans-description element          *)

\* extract_date_from_url: a date of the form YYYY-MM-DD, from the url or the clock
DateText ==
    << <<"a", 4>>, <<"-", 1>>, <<"a", 2>>, <<"-", 1>>, <<"a", 2>> >>

\* the header line up to the date (two sparkles, "*Current Important Events \-")
\* and after it ("*", two sparkles, a blank line)
HeaderBeforeDate ==
    << <<"u3", 2>>, <<" ", 1>>, <<"*", 1>>, <<"a", 7>>, <<" ", 1>>,
       <<"a", 9>>, <<" ", 1>>, <<"a", 6>>, <<" ", 1>>, <<"bs", 1>>,
       <<"-", 1>>, <<" ", 1>> >>

HeaderAfterDate ==
    << <<"*", 1>>, <<" ", 1>>, <<"u3", 2>>, <<"nl", 2>> >>

\* the title line "*Today's Current Affairs Quiz*" between two stars
QuizTitle ==
    << <<"u4", 1>>, <<" ", 1>>, <<"*", 1>>, <<"a", 7>>, <<" ", 1>>,
       <<"a", 7>>, <<" ", 1>>, <<"a", 7>>, <<" ", 1>>, <<"a", 4>>,
       <<"*", 1>>, <<" ", 1>>, <<"u4", 1>>, <<"nl", 2>> >>

\* the label "*Question:*" after a question mark emoji
QuestionLabel ==
    << <<"u3", 1>>, <<" ", 1>>, <<"*", 1>>, <<"q", 9>>, <<"*", 1>>,
       <<" ", 1>> >>

\* the label "*Correct Answer:*" after a target emoji
CorrectAnswerLabel ==
    << <<"u4", 1>>, <<" ", 1>>, <<"*", 1>>, <<"c", 7>>, <<" ", 1>>,
       <<"n", 7>>, <<"*", 1>>, <<" ", 1>> >>

\* the label "*Explanation:*" after a bulb emoji
ExplanationLabel ==
    << <<"u4", 1>>, <<" ", 1>>, <<"*", 1>>, <<"e", 12>>, <<"*", 1>>,
       <<" ", 1>> >>

\* "No detailed explanation available"
NoExplanation ==
    << <<"a", 2>>, <<" ", 1>>, <<"a", 8>>, <<" ", 1>>, <<"a", 11>>,
       <<" ", 1>>, <<"a", 9>> >>

\* "\n\n"
BlankLine == << <<"nl", 2>> >>

\* the separator the formatter writes: 38 times "\\-", then "\n\n"
EscapedSeparator == Cat(EscapeRun("-", SepDashes), BlankLine)

option_letters == <<"A", "B", "C", "D">>

\* lines 213-218: the text of the option whose letter is correct_answer;
\* raised is the IndexError of option_letters[opt_idx] past the fourth option
RECURSIVE find_correct_answer_text(_, _, _)
find_correct_answer_text(option_divs, opt_idx, correct_answer) ==
    IF opt_idx > Len(option_divs) THEN [raised |-> FALSE, text |-> Empty]
    ELSE IF option_divs[opt_idx] = Empty
         THEN find_correct_answer_text(option_divs, opt_idx + 1, correct_answer)
    ELSE IF opt_idx > Len(option_letters) THEN [raised |-> TRUE, text |-> Empty]
    ELSE IF option_letters[opt_idx] = correct_answer
         THEN [raised |-> FALSE, text |-> option_divs[opt_idx]]
    ELSE find_correct_answer_text(option_divs, opt_idx + 1, correct_answer)

\* the finished block passed through the escaper once more
question_block_escaped_twice(question_text, correct_answer_text, explanation_text) ==
    escape_markdown(
        Join(<< QuestionLabel, escape_markdown(question_text), BlankLine,
                CorrectAnswerLabel, escape_markdown(correct_answer_text), BlankLine,
                ExplanationLabel, escape_markdown(explanation_text), BlankLine,
                EscapedSeparator >>))

\* lines 223-226: the block of one question
question_block(question_text, correct_answer_text, explanation_text) ==
    Join(<< QuestionLabel, escape_markdown(question_text), BlankLine,
            CorrectAnswerLabel, escape_markdown(correct_answer_text), BlankLine,
            ExplanationLabel, escape_markdown(explanation_text), BlankLine,
            EscapedSeparator >>)

\* lines 201-231: what one container adds to the message
question_message(container) ==
    IF ~container.has_question THEN Empty
    ELSE LET found == IF container.correct_answer # "" /\ container.options # <<>>
                      THEN find_correct_answer_text(container.options, 1,
                                                    container.correct_answer)
                      ELSE [raised |-> FALSE, text |-> Empty]
             explanation_text == IF container.has_explanation
                                 THEN container.explanation ELSE NoExplanation
         IN IF found.raised THEN Empty
            ELSE question_block(container.question_text, found.text, explanation_text)

RECURSIVE question_messages(_)
question_messages(containers) ==
    IF containers = <<>> THEN Empty
    ELSE Cat(question_message(Head(containers)), question_messages(Tail(containers)))

\* lines 192-193: the two header lines
message_header(date) == Join(<< HeaderBeforeDate, date, HeaderAfterDate, QuizTitle >>)

\* the returned message, or none for Python's None
extract_question_data(containers, date) ==
    IF containers = <<>> THEN [none |-> TRUE, text |-> Empty]
    ELSE [none |-> FALSE,
          text |-> Cat(message_header(date), question_messages(containers))]

-----------------------------------------------------------------------------
(* One call of smart_split_message on a body of whole segments *)

MaxSegments == 3

\* question blocks without their separator: plain text of several lengths,
\* text of multi-byte characters, and a block larger than the small budgets
SegmentTexts ==
    { Rep("a", 5), Rep("a", 45), Rep("a", 50), Rep("u3", 20), Rep("a", 120) }

Budgets == {100, 130, 4096}

Footers == { Empty, << <<"nl", 2>>, <<"a", 8>>, <<"u4", 1>> >> }

\* a segment as it stands in the body: the block and its separator
WithSeparator(block) == Cat(block, Separator)

RECURSIVE Body(_)
Body(segs) == IF segs = <<>> THEN Empty ELSE Cat(WithSeparator(Head(segs)), Body(Tail(segs)))

SegmentLists == UNION { [1..n -> SegmentTexts] : n \in 0..MaxSegments }

InitChunker ==
    /\ segments \in SegmentLists
    /\ message = Body(segments)
    /\ footer \in Footers
    /\ max_length \in Budgets
    /\ split_messages = <<>>
    /\ returned = FALSE
    /\ pc = "chunker" /\ error = "none" /\ ledger = {}
    /\ collection = "None" /\ links = <<>> /\ link_idx = 0 /\ outcomes = <<>>
    /\ soup = <<>> /\ message_english = [none |-> TRUE, text |-> Empty]
    /\ english_messages = <<>> /\ english_message_links = <<>>
    /\ en_idx = 0 /\ gu_idx = 0 /\ log = <<>>
    /\ translation_errs = <<>> /\ gujarati_messages = <<>>

CallSplit ==
    /\ returned = FALSE
    /\ split_messages' = smart_split_message(message, max_length, footer)
    /\ returned' = TRUE
    /\ UNCHANGED <<segments, message, footer, max_length>>
    /\ UNCHANGED <<runVars, pageVars, textVars>>

NextChunker == CallSplit

SpecChunker == InitChunker /\ [][NextChunker]_vars

-----------------------------------------------------------------------------
(* The script: validate_environment_variables, then                         *)
(* fetch_and_process_current_affairs, which calls                           *)
(* process_current_affairs_url for every link that passes the filters.      *)

MaxLinks == 2
MaxContainers == 1

DefaultMaxLength == 4096

\* hrefs a link of the main page can carry: none at all, one of another
\* month, or one of the current month's pages
Hrefs == {"none", "old", "p1", "p2"}

\* not href or current_date not in href (line 310)
filtered_out(href) == href \in {"none", "old"}

LinkLists == UNION { [1..n -> Hrefs] : n \in 0..MaxLinks }

PlainContainer ==
    [has_question |-> TRUE,
     question_text |-> << <<"a", 30>>, <<"-", 1>>, <<"a", 9>>, <<".", 1>> >>,
     correct_answer |-> "B",
     options |-> << Rep("a", 6), Rep("a", 7) >>,
     has_explanation |-> TRUE,
     explanation |-> << <<"a", 20>>, <<"!", 1>> >>]

\* a question long enough for the message to pass max_length
LongContainer ==
    [has_question |-> TRUE, question_text |-> Rep("a", 4000),
     correct_answer |-> "", options |-> <<>>,
     has_explanation |-> FALSE, explanation |-> Empty]

\* a container without a bix-td-qtxt element
NoQuestionContainer ==
    [has_question |-> FALSE, question_text |-> Empty,
     correct_answer |-> "", options |-> <<>>,
     has_explanation |-> FALSE, explanation |-> Empty]

\* five options and a key that matches none of the first four
FiveOptionContainer ==
    [has_question |-> TRUE, question_text |-> Rep("a", 12),
     correct_answer |-> "E",
     options |-> << Rep("a", 1), Rep("a", 2), Rep("a", 3), Rep("a", 4), Rep("a", 5) >>,
     has_explanation |-> TRUE, explanation |-> Rep("a", 9)]

Containers == {PlainContainer, LongContainer, NoQuestionContainer, FiveOptionContainer}

Pages == UNION { [1..n -> Containers] : n \in 0..MaxContainers }

\* the promotional text of lines 256-259, before escaping
PromotionalText ==
    << <<"nl", 2>>, <<"u4", 1>>, <<" ", 1>>, <<"a", 5>>, <<" ", 1>>,
       <<"a", 4>>, <<" ", 1>>, <<"a", 2>>, <<" ", 1>>, <<"a", 6>>,
       <<" ", 1>>, <<"a", 2>>, <<" ", 1>>, <<"a", 3>>, <<" ", 1>>,
       <<"a", 6>>, <<" ", 1>>, <<"a", 7>>, <<" ", 1>>, <<"a", 7>>,
       <<" ", 1>>, <<"a", 3>>, <<" ", 1>>, <<"a", 7>>, <<"!", 1>>,
       <<" ", 1>>, <<"u4", 1>>, <<"nl", 1>>, <<"u4", 1>>, <<" ", 1>>,
       <<"a", 4>>, <<" ", 1>>, <<"[", 1>>, <<"a", 5>>, <<" ", 1>>,
       <<"a", 7>>, <<" ", 1>>, <<"a", 7>>, <<" ", 1>>, <<"a", 2>>,
       <<" ", 1>>, <<"a", 7>>, <<"]", 1>>, <<"(", 1>>, <<"a", 9>>,
       <<".", 1>>, <<"a", 8>>, <<"_", 1>>, <<"a", 7>>, <<"_", 1>>,
       <<"a", 3>>, <<"_", 1>>, <<"a", 6>>, <<")", 1>>, <<" ", 1>>,
       <<"a", 6>>, <<"_", 1>>, <<"a", 7>>, <<"_", 1>>, <<"a", 3>>,
       <<"_", 1>>, <<"a", 6>>, <<".", 1>>, <<"nl", 1>>, <<"u4", 1>>,
       <<" ", 1>>, <<"a", 6>>, <<" ", 1>>, <<"[", 1>>, <<"a", 8>>,
       <<" ", 1>>, <<"a", 7>>, <<" ", 1>>, <<"a", 7>>, <<"]", 1>>,
       <<"(", 1>>, <<"a", 9>>, <<".", 1>>, <<"a", 10>>, <<")", 1>>,
       <<" ", 1>>, <<"a", 12>>, <<".", 1>>, <<" ", 1>>, <<"u4", 2>>,
       <<"u3", 1>>, <<"nl", 2>>, <<"a", 4>>, <<" ", 1>>, <<"a", 5>>,
       <<" ", 1>>, <<"a", 2>>, <<" ", 1>>, <<"a", 3>>, <<" ", 1>>,
       <<"a", 11>>, <<".", 1>>, <<" ", 1>>, <<"a", 4>>, <<" ", 1>>,
       <<"a", 2>>, <<" ", 1>>, <<"a", 3>>, <<"!", 1>>, <<" ", 1>>,
       <<"u4", 2>> >>

promotional_message_english == escape_markdown(PromotionalText)

\* a gate that never finds an entry
seen_never(coll, href) == FALSE

\* collection.find_one({"url": href}) is truthy behind "collection is not None"
seen(coll, href) == coll = "collection" /\ href \in ledger

\* the translation of a chunk sent right after the chunk
after_english_send_interleaved(result, idx, messages) ==
    IF result = "raised" THEN "sleep" ELSE "send_gujarati"

\* a failed send logged and passed over
after_english_send_swallowed(result, idx, messages) ==
    IF idx < Len(messages) THEN "send_english" ELSE "send_gujarati"

\* where the first loop goes after a send: an exception leaves the function
\* through the handlers of lines 288-291, otherwise the for statement of
\* line 266 takes the next chunk or gives way to the second loop
after_english_send(result, idx, messages) ==
    IF result = "raised" THEN "sleep"
    ELSE IF idx < Len(messages) THEN "send_english" ELSE "send_gujarati"

\* zip(english_messages, english_message_links) stops at the shorter list
zip_len(messages, message_links) ==
    IF Len(messages) <= Len(message_links) THEN Len(messages) ELSE Len(message_links)

PageIdle ==
    /\ soup = <<>>
    /\ message_english = [none |-> TRUE, text |-> Empty]
    /\ english_messages = <<>>
    /\ english_message_links = <<>>
    /\ en_idx = 0
    /\ gu_idx = 0
    /\ log = <<>>

TextIdle ==
    /\ translation_errs = <<>>
    /\ gujarati_messages = <<>>

ChunkerIdle ==
    /\ segments = <<>>
    /\ message = Empty
    /\ footer = Empty
    /\ max_length = DefaultMaxLength
    /\ split_messages = <<>>
    /\ returned = FALSE

RunIdle ==
    /\ pc = "validate"
    /\ error = "none"
    /\ collection = "None"
    /\ links = <<>>
    /\ link_idx = 0
    /\ outcomes = <<>>

Init ==
    /\ ChunkerIdle
    /\ RunIdle
    /\ ledger = {}
    /\ PageIdle
    /\ TextIdle

\* the page at links[link_idx] ends with this outcome; the loop sleeps next
EndPage(outcome) ==
    /\ outcomes' = Append(outcomes, outcome)
    /\ pc' = "sleep"

\* validate_environment_variables raises on a missing token or uri, an
\* unreachable MongoDB and a rejected token; the script re-raises (line 335)
Validate ==
    /\ pc = "validate"
    /\ \E env \in {"ok", "ValueError", "mongo_unreachable", "telegram_rejected"} :
          /\ error' = IF env = "ok" THEN "none" ELSE env
          /\ pc' = IF env = "ok" THEN "discover" ELSE "exited"
    /\ UNCHANGED <<ledger, collection, links, link_idx, outcomes>>
    /\ UNCHANGED <<pageVars, chunkerVars, textVars>>

\* lines 298-306: the main page is fetched, its links and the collection taken
Discover ==
    /\ pc = "discover"
    /\ \/ /\ pc' = "exited"
          /\ error' = "main_page_failed"
          /\ UNCHANGED <<links, collection, link_idx>>
       \/ /\ links' \in LinkLists
          /\ collection' \in {"None", "collection"}
          /\ link_idx' = 1
          /\ pc' = "loop"
          /\ UNCHANGED error
    /\ UNCHANGED <<ledger, outcomes>>
    /\ UNCHANGED <<pageVars, chunkerVars, textVars>>

\* lines 308-317: one pass of the loop over links up to the call
NextLink ==
    /\ pc = "loop"
    /\ \/ /\ link_idx > Len(links)
          /\ pc' = "exited"
          /\ UNCHANGED <<error, link_idx, outcomes>>
       \/ /\ link_idx <= Len(links)
          /\ filtered_out(links[link_idx])
          /\ outcomes' = Append(outcomes, "filtered")
          /\ link_idx' = link_idx + 1
          /\ UNCHANGED <<pc, error>>
       \/ /\ link_idx <= Len(links)
          /\ ~filtered_out(links[link_idx])
          /\ collection = "collection"
          /\ pc' = "exited"
          /\ error' = "find_one_failed"
          /\ UNCHANGED <<link_idx, outcomes>>
       \/ /\ link_idx <= Len(links)
          /\ ~filtered_out(links[link_idx])
          /\ seen(collection, links[link_idx])
          /\ outcomes' = Append(outcomes, "skipped")
          /\ link_idx' = link_idx + 1
          /\ UNCHANGED <<pc, error>>
       \/ /\ link_idx <= Len(links)
          /\ ~filtered_out(links[link_idx])
          /\ ~seen(collection, links[link_idx])
          /\ pc' = "process"
          /\ UNCHANGED <<error, link_idx, outcomes>>
    /\ UNCHANGED <<ledger, collection, links>>
    /\ UNCHANGED <<pageVars, chunkerVars, textVars>>

\* lines 244-264: fetch, parse, extract, split
Process ==
    /\ pc = "process"
    /\ \/ /\ EndPage("abandoned")
          /\ UNCHANGED pageVars
       \/ \E page \in Pages :
             LET extracted == extract_question_data(page, DateText) IN
             /\ soup' = page
             /\ message_english' = extracted
             /\ IF extracted.none \/ extracted.text = Empty
                THEN /\ EndPage("no_content")
                     /\ UNCHANGED <<english_messages, english_message_links,
                                    en_idx, gu_idx, log>>
                ELSE /\ english_messages' =
                           smart_split_message(extracted.text, DefaultMaxLength,
                                               promotional_message_english)
                     /\ english_message_links' = <<>>
                     /\ en_idx' = 1
                     /\ pc' = "send_english"
                     /\ UNCHANGED <<outcomes, gu_idx, log>>
    /\ UNCHANGED <<error, ledger, collection, links, link_idx>>
    /\ UNCHANGED <<chunkerVars, textVars>>

\* what one call of send_telegram_message can do: requests.post is called
\* once (line 124); it raises a RequestException such as a Timeout, or the
\* status is not 200 and line 129 raises an HTTPError, both re-raised by line
\* 137; or the call returns the message_id of the response, None when the
\* response holds none
SendResults ==
    { [result |-> "raised", cause |-> "Timeout"],
      [result |-> "raised", cause |-> "HTTPError"],
      [result |-> "None", cause |-> "none"],
      [result |-> "message_id", cause |-> "none"] }

\* lines 266-270: send_telegram_message raises, or returns a message_id, or
\* returns None for a response without one.  Telegram's identifier is any
\* positive integer new to the channel; the model writes it as the ordinal of
\* the send within the page, and the post link as that identifier.
SendEnglish ==
    /\ pc = "send_english"
    /\ \E sent \in SendResults : LET result == sent.result IN
          /\ log' = Append(log, [channel |-> "english", chunk |-> en_idx,
                                 result |-> result, cause |-> sent.cause,
                                 link |-> 0])
          /\ english_message_links' =
                IF result = "message_id"
                THEN Append(english_message_links, en_idx)
                ELSE english_message_links
          /\ pc' = after_english_send(result, en_idx, english_messages)
          /\ outcomes' = IF pc' = "sleep" THEN Append(outcomes, "abandoned") ELSE outcomes
          /\ en_idx' = IF pc' = "sleep" THEN en_idx ELSE en_idx + 1
          /\ gu_idx' = 1
    /\ UNCHANGED <<error, ledger, collection, links, link_idx>>
    /\ UNCHANGED <<soup, message_english, english_messages>>
    /\ UNCHANGED <<chunkerVars, textVars>>

\* lines 272-282: the next pair of the zip is translated, linked and sent;
\* the value send_telegram_message returns is not used (line 282)
SendGujarati ==
    /\ pc = "send_gujarati"
    /\ gu_idx <= zip_len(english_messages, english_message_links)
    /\ \E sent \in SendResults : LET result == sent.result IN
          /\ log' = Append(log, [channel |-> "gujarati", chunk |-> gu_idx,
                                 result |-> result, cause |-> sent.cause,
                                 link |-> english_message_links[gu_idx]])
          /\ IF result = "raised"
             THEN /\ EndPage("abandoned")
                  /\ UNCHANGED gu_idx
             ELSE /\ gu_idx' = gu_idx + 1
                  /\ UNCHANGED <<pc, outcomes>>
    /\ UNCHANGED <<error, ledger, collection, links, link_idx>>
    /\ UNCHANGED <<soup, message_english, english_messages, english_message_links,
                    en_idx>>
    /\ UNCHANGED <<chunkerVars, textVars>>

\* lines 284-286 and the handlers of lines 288-291
Record ==
    /\ pc = "send_gujarati"
    /\ gu_idx > zip_len(english_messages, english_message_links)
    /\ \/ /\ collection = "None"
          /\ EndPage("done")
          /\ UNCHANGED ledger
       \/ /\ collection = "collection"
          /\ ledger' = ledger \cup {links[link_idx]}
          /\ EndPage("recorded")
       \/ /\ collection = "collection"
          /\ EndPage("abandoned")
          /\ UNCHANGED ledger
    /\ UNCHANGED <<error, collection, links, link_idx>>
    /\ UNCHANGED <<pageVars, chunkerVars, textVars>>

\* line 318, and on to the next link
Sleep ==
    /\ pc = "sleep"
    /\ pc' = "loop"
    /\ link_idx' = link_idx + 1
    /\ soup' = <<>>
    /\ message_english' = [none |-> TRUE, text |-> Empty]
    /\ english_messages' = <<>>
    /\ english_message_links' = <<>>
    /\ en_idx' = 0
    /\ gu_idx' = 0
    /\ log' = <<>>
    /\ UNCHANGED <<error, ledger, collection, links, outcomes>>
    /\ UNCHANGED <<chunkerVars, textVars>>

\* the script is started again; only the collection's contents carry over
Restart ==
    /\ pc = "exited"
    /\ pc' = "validate"
    /\ error' = "none"
    /\ collection' = "None"
    /\ links' = <<>>
    /\ link_idx' = 0
    /\ outcomes' = <<>>
    /\ UNCHANGED <<ledger, pageVars, chunkerVars, textVars>>

Next ==
    \/ Validate
    \/ Discover
    \/ NextLink
    \/ Process
    \/ SendEnglish
    \/ SendGujarati
    \/ Record
    \/ Sleep
    \/ Restart

Spec == Init /\ [][Next]_vars

-----------------------------------------------------------------------------
(* translate_message and the message for the Gujarati channel *)

\* message.split("\n\n"): the leftmost blank line is the first two newlines
\* of the first run of at least two
RECURSIVE split_sections(_)
split_sections(s) ==
    LET hits == {i \in 1..Len(s) : s[i][1] = "nl" /\ s[i][2] >= 2}
    IN IF hits = {} THEN << s >>
       ELSE LET i == CHOOSE h \in hits : \A g \in hits : h <= g
                after == Cat(Rep("nl", s[i][2] - 2), SubSeq(s, i + 1, Len(s)))
            IN << SubSeq(s, 1, i - 1) >> \o split_sections(after)

\* "\n\n".join(sections)
RECURSIVE join_sections(_)
join_sections(sections) ==
    IF sections = <<>> THEN Empty
    ELSE IF Len(sections) = 1 THEN sections[1]
    ELSE Cat(Cat(sections[1], BlankLine), join_sections(Tail(sections)))

\* word in section, for a word given as runs
Contains(section, word) ==
    \E i \in 1..(Len(section) - Len(word) + 1) :
        SubSeq(section, i, i + Len(word) - 1) = word

\* the test of line 171
has_content(section) ==
    \/ Contains(section, << <<"q", 9>> >>)
    \/ Contains(section, << <<"c", 7>>, <<" ", 1>>, <<"n", 7>> >>)
    \/ Contains(section, << <<"e", 12>> >>)

\* characters the translator renders in Gujarati script
Letters == {"a", "q", "c", "n", "e"}

\* GoogleTranslator(source='en', target='gu').translate on the runs lo..hi:
\* the library is not part of the repository; its result is written as the
\* text with every letter turned into a Gujarati one (three bytes in UTF-8)
\* and everything else kept
RECURSIVE TranslateRuns(_, _, _)
TranslateRuns(s, lo, hi) ==
    IF lo > hi THEN Empty
    ELSE IF lo = hi
         THEN << <<IF s[lo][1] \in Letters THEN "u3" ELSE s[lo][1], s[lo][2]>> >>
    ELSE LET mid == (lo + hi) \div 2 IN
         Cat(TranslateRuns(s, lo, mid), TranslateRuns(s, mid + 1, hi))

translate(section) == TranslateRuns(section, 1, Len(section))

\* a section whose translation failed left out of the result
translated_section_dropped(section, raised) ==
    IF has_content(section) THEN (IF raised THEN Empty ELSE translate(section))
    ELSE section

\* lines 171-179: what one section adds to translated_sections; raised tells
\* whether the translator raised for it
translated_section(section, raised) ==
    IF has_content(section) THEN (IF raised THEN section ELSE translate(section))
    ELSE section

\* translate_message, with errs the positions of the sections the translator
\* raises for.  The translator returns a str or raises, so the handler of
\* line 182 has nothing to catch.
translate_message(msg, errs) ==
    LET sections == split_sections(msg) IN
    join_sections([k \in 1..Len(sections) |->
                      translated_section(sections[k], k \in errs)])

\* the positions of the sections of msg handed to the translator
content_sections(msg) ==
    LET sections == split_sections(msg) IN
    {k \in 1..Len(sections) : has_content(sections[k])}

\* the number of decimal digits of a message_id
RECURSIVE Digits(_)
Digits(n) == IF n < 10 THEN 1 ELSE 1 + Digits(n \div 10)

\* line 269: "https://t.me/gujtest2/" and the message_id
post_link(message_id) ==
    << <<"a", 9>>, <<".", 1>>, <<"a", 12 + Digits(message_id)>> >>

\* "Read this post in English: [Click here]("
ReadInEnglish ==
    << <<"a", 4>>, <<" ", 1>>, <<"a", 4>>, <<" ", 1>>, <<"a", 4>>,
       <<" ", 1>>, <<"a", 2>>, <<" ", 1>>, <<"a", 8>>, <<" ", 1>>,
       <<"[", 1>>, <<"a", 5>>, <<" ", 1>>, <<"a", 4>>, <<"]", 1>>,
       <<"(", 1>> >>

\* the two lines of links of lines 278-279
JoinFollowLines ==
    << <<"u4", 1>>, <<" ", 1>>, <<"a", 4>>, <<" ", 1>>, <<"[", 1>>,
       <<"a", 5>>, <<" ", 1>>, <<"a", 7>>, <<" ", 1>>, <<"a", 7>>,
       <<" ", 1>>, <<"a", 2>>, <<" ", 1>>, <<"a", 7>>, <<"]", 1>>,
       <<"(", 1>>, <<"a", 9>>, <<".", 1>>, <<"a", 8>>, <<"_", 1>>,
       <<"a", 7>>, <<"_", 1>>, <<"a", 3>>, <<"_", 1>>, <<"a", 6>>,
       <<")", 1>>, <<"nl", 1>>, <<"u4", 1>>, <<" ", 1>>, <<"a", 6>>,
       <<" ", 1>>, <<"[", 1>>, <<"a", 8>>, <<" ", 1>>, <<"a", 7>>,
       <<" ", 1>>, <<"a", 7>>, <<"]", 1>>, <<"(", 1>>, <<"a", 9>>,
       <<".", 1>>, <<"a", 10>>, <<")", 1>>, <<"nl", 2>> >>

\* what lines 276-279 put after msg_gujarati
link_lines(english_link) ==
    Join(<< BlankLine, ReadInEnglish, english_link, << <<")", 1>>, <<"nl", 2>> >>,
            JoinFollowLines >>)

\* lines 275-280
gujarati_message(msg_gujarati, english_link) ==
    Cat(msg_gujarati, link_lines(english_link))

-----------------------------------------------------------------------------
(* process_current_affairs_url on a page that is fetched and whose sends    *)
(* all return a message_id: the texts on their way from the page to the two *)
(* channels                                                                 *)

MaxBlocks == 2

\* a question that brings the message close to max_length: one block fits a
\* message, two do not
NearLimitContainer ==
    [has_question |-> TRUE, question_text |-> Rep("a", 3400),
     correct_answer |-> "", options |-> <<>>,
     has_explanation |-> FALSE, explanation |-> Empty]

FormatterContainers ==
    {PlainContainer, NearLimitContainer, NoQuestionContainer, FiveOptionContainer}

FormatterPages == UNION { [1..n -> FormatterContainers] : n \in 0..MaxBlocks }

InitFormatter ==
    /\ ChunkerIdle
    /\ pc = "extract" /\ error = "none" /\ ledger = {}
    /\ collection = "None" /\ links = <<"p1">> /\ link_idx = 1 /\ outcomes = <<>>
    /\ soup \in FormatterPages
    /\ message_english = [none |-> TRUE, text |-> Empty]
    /\ english_messages = <<>> /\ english_message_links = <<>>
    /\ en_idx = 0 /\ gu_idx = 0 /\ log = <<>>
    /\ TextIdle

\* lines 248-252
ExtractPage ==
    /\ pc = "extract"
    /\ LET extracted == extract_question_data(soup, DateText) IN
       /\ message_english' = extracted
       /\ pc' = IF extracted.none \/ extracted.text = Empty THEN "returned" ELSE "split"
    /\ UNCHANGED <<error, ledger, collection, links, link_idx, outcomes>>
    /\ UNCHANGED <<soup, english_messages, english_message_links, en_idx, gu_idx, log>>
    /\ UNCHANGED <<chunkerVars, textVars>>

\* lines 255-270, every send returning a message_id (written as the ordinal
\* of the send)
SplitAndSendEnglish ==
    /\ pc = "split"
    /\ LET chunks == smart_split_message(message_english.text, DefaultMaxLength,
                                         promotional_message_english) IN
       /\ english_messages' = chunks
       /\ english_message_links' = [c \in 1..Len(chunks) |-> c]
       /\ log' = [c \in 1..Len(chunks) |->
                     [channel |-> "english", chunk |-> c, result |-> "message_id",
                      cause |-> "none", link |-> 0]]
       /\ en_idx' = Len(chunks) + 1
    /\ gu_idx' = 1
    /\ pc' = "translate"
    /\ UNCHANGED <<error, ledger, collection, links, link_idx, outcomes>>
    /\ UNCHANGED <<soup, message_english>>
    /\ UNCHANGED <<chunkerVars, textVars>>

\* lines 272-282 for one pair of the zip: the translator raises for the
\* sections errs, the message is built and sent
TranslateAndSend ==
    /\ pc = "translate"
    /\ gu_idx <= zip_len(english_messages, english_message_links)
    /\ \E errs \in SUBSET content_sections(english_messages[gu_idx]) :
          /\ translation_errs' = Append(translation_errs, errs)
          /\ gujarati_messages' =
                Append(gujarati_messages,
                       gujarati_message(translate_message(english_messages[gu_idx], errs),
                                        post_link(english_message_links[gu_idx])))
    /\ log' = Append(log, [channel |-> "gujarati", chunk |-> gu_idx,
                           result |-> "message_id", cause |-> "none",
                           link |-> english_message_links[gu_idx]])
    /\ gu_idx' = gu_idx + 1
    /\ UNCHANGED <<pc, error, ledger, collection, links, link_idx, outcomes>>
    /\ UNCHANGED <<soup, message_english, english_messages, english_message_links,
                    en_idx>>
    /\ UNCHANGED chunkerVars

\* line 285 with collection None: the function returns
ReturnFromPage ==
    /\ pc = "translate"
    /\ gu_idx > zip_len(english_messages, english_message_links)
    /\ pc' = "returned"
    /\ UNCHANGED <<error, ledger, collection, links, link_idx, outcomes>>
    /\ UNCHANGED <<pageVars, chunkerVars, textVars>>

NextFormatter ==
    \/ ExtractPage
    \/ SplitAndSendEnglish
    \/ TranslateAndSend
    \/ ReturnFromPage

SpecFormatter == InitFormatter /\ [][NextFormatter]_vars

-----------------------------------------------------------------------------
(* Properties of smart_split_message, checked under SpecChunker *)

\* the chunk as it reads once a trailing footer is taken off
StripFooter(chunk) == IF EndsWith(chunk, footer) THEN StripSuffix(chunk, footer) ELSE chunk

\* the chunk is one whole segment, itself larger than the budget, with or
\* without the footer
IsOversizedSegment(chunk) ==
    \E k \in 1..Len(segments) :
        /\ utf8_len(WithSeparator(segments[k])) > max_length
        /\ chunk \in {WithSeparator(segments[k]), Cat(WithSeparator(segments[k]), footer)}

\* C1: every returned chunk, footer included, is at most max_length bytes in
\* UTF-8, except a chunk that holds exactly one segment which is by itself
\* larger than max_length.
C1_ChunkWithinByteBudget ==
    returned =>
        \A i \in 1..Len(split_messages) :
            \/ utf8_len(split_messages[i]) <= max_length
            \/ IsOversizedSegment(split_messages[i])

\* C2: the returned chunks, each with its footer taken off, concatenate in
\* order to exactly the body that was passed in.
C2_RoundTrip ==
    returned =>
        Join([i \in 1..Len(split_messages) |-> StripFooter(split_messages[i])]) = message

RECURSIVE GreedyPacking(_, _, _, _)
GreedyPacking(segs, current, out, maxlen) ==
    IF segs = <<>> THEN (IF current = Empty THEN out ELSE Append(out, current))
    ELSE LET seg == WithSeparator(Head(segs)) IN
         IF current = Empty \/ utf8_len(current) + utf8_len(seg) <= maxlen
         THEN GreedyPacking(Tail(segs), Cat(current, seg), out, maxlen)
         ELSE GreedyPacking(Tail(segs), seg, Append(out, current), maxlen)

\* C16, in the case of an empty footer (where no footer is budgeted
\* anywhere): the returned chunks are the greedy packing of the segments.
C16_EqualsGreedyPacking ==
    (returned /\ segments # <<>> /\ footer = Empty) =>
        split_messages = GreedyPacking(segments, Empty, <<>>, max_length)

\* C17: for a non-empty body no returned chunk is empty or holds the footer
\* alone.
C17_NoEmptyChunk ==
    (returned /\ segments # <<>>) =>
        \A q \in 1..Len(split_messages) : StripFooter(split_messages[q]) # Empty

-----------------------------------------------------------------------------
(* Properties of the script, checked under Spec *)

\* the page at links[link_idx] has returned and the loop is about to sleep
PageEnded == pc = "sleep"

PageOutcome == outcomes[Len(outcomes)]

EnglishSends == {p \in 1..Len(log) : log[p].channel = "english"}

GujaratiSends == {p \in 1..Len(log) : log[p].channel = "gujarati"}

\* C4: a page is recorded in the collection only if every English chunk was
\* sent and gave a post link and the translation of every chunk was sent.
C4_RecordOnlyAfterFullSuccess ==
    (PageEnded /\ PageOutcome = "recorded") =>
        /\ Len(english_message_links) = Len(english_messages)
        /\ \A c \in 1..Len(english_messages) :
              \E p \in GujaratiSends : log[p].chunk = c /\ log[p].result # "raised"

\* C5: within a page the sends to the English channel come first, chunk by
\* chunk in order, and a send to the Gujarati channel happens only after
\* all English chunks were attempted, again chunk by chunk in order.
C5_EnglishBeforeGujarati ==
    \A p \in 1..Len(log) :
        /\ log[p].channel = "english" => log[p].chunk = p
        /\ log[p].channel = "gujarati" =>
              /\ p > Len(english_messages)
              /\ log[p].chunk = p - Len(english_messages)

C5_Witness ==
    /\ PageEnded
    /\ Len(log) = 4
    /\ log[2].channel = "english"
    /\ log[4].channel = "gujarati"

\* C6: with the collection at hand, no page is fetched, extracted or sent
\* while the collection holds its url; a link is skipped as already
\* processed only when the collection holds its url; and the collection
\* holds the url of a page from the moment the page is recorded.
C6_DedupGate ==
    /\ (collection = "collection"
         /\ pc \in {"process", "send_english", "send_gujarati"})
            => links[link_idx] \notin ledger
    /\ \A q \in 1..Len(outcomes) :
          /\ outcomes[q] = "skipped" => links[q] \in ledger
          /\ outcomes[q] = "recorded" => links[q] \in ledger

C6_Witness ==
    /\ pc = "process"
    /\ collection = "collection"
    /\ \E q \in 1..Len(outcomes) : outcomes[q] = "skipped"

\* C7: no failure of the store ends the run: neither MongoDB being
\* unreachable at startup nor a failing lookup.
C7_StoreFailureNeverEndsRun ==
    pc = "exited" => error \notin {"mongo_unreachable", "find_one_failed"}

\* C8: when the run ends, every link found on the main page has been
\* reached and has ended (filtered, skipped, done or abandoned).
C8_EveryLinkReached ==
    pc = "exited" => Len(outcomes) = Len(links)

C10_NoLinkMeansNotRecorded ==
    (PageEnded /\ EnglishSends # {} /\ english_message_links = <<>>) =>
        /\ GujaratiSends = {}
        /\ PageOutcome # "recorded"

\* C11: a send that fails on a transient transport error is attempted
\* again: when the page has ended, every send that timed out was followed by
\* another attempt to send the same chunk to the same channel.
C11_TransientFailureRetried ==
    PageEnded =>
        \A p \in 1..Len(log) :
            log[p].cause = "Timeout" =>
                \E q \in (p + 1)..Len(log) :
                    log[q].channel = log[p].channel /\ log[q].chunk = log[p].chunk

\* "Unknown"
Unknown == Rep("a", 7)

\* the positions of the options whose letter is the stored key
MatchingOptions(container) ==
    {k \in 1..Len(container.options) :
        /\ k <= Len(option_letters)
        /\ container.options[k] # Empty
        /\ option_letters[k] = container.correct_answer}

\* the block of a record with "Unknown" for an answer that cannot be resolved
BlockWithPlaceholder(container) ==
    IF ~container.has_question THEN Empty
    ELSE LET hits == MatchingOptions(container) IN
         question_block(container.question_text,
                        IF hits = {} THEN Unknown
                        ELSE container.options[CHOOSE k \in hits : \A g \in hits : k <= g],
                        IF container.has_explanation
                        THEN container.explanation ELSE NoExplanation)

\* C12: the message made of a page holds one block per question record, in
\* order, and the block of a record whose stored key matches no option
\* letter shows "Unknown" as the correct answer.
C12_UnknownPlaceholder ==
    (soup # <<>> /\ ~message_english.none) =>
        message_english.text =
            Cat(message_header(DateText),
                Join([k \in 1..Len(soup) |-> BlockWithPlaceholder(soup[k])]))

\* C14: for a page without a question record (no container, or no container
\* with a question text) nothing is sent to either channel and the page is
\* not recorded.
C14_NoRecordNothingSent ==
    (\A k \in 1..Len(soup) : ~soup[k].has_question) =>
        /\ pc \notin {"send_english", "send_gujarati"}
        /\ log = <<>>
        /\ PageEnded => PageOutcome # "recorded"

\* C18: every send to the Gujarati channel carries the post link of the
\* English send of the same chunk.
C18_BackLinkOfSameChunk ==
    \A p \in GujaratiSends :
        /\ log[p].link = log[p].chunk
        /\ log[log[p].chunk].result = "message_id"

-----------------------------------------------------------------------------
(* Properties of the texts, checked under SpecFormatter *)

\* C13: the text sent to the Gujarati channel for chunk c is the English
\* chunk section by section, in the same order, followed by the link lines:
\* a section with content the translator did not raise for is translated, a
\* section it raised for is the original text, a section without content is
\* the original text; and the message was sent whatever the translator did.
C13_FailedSectionsFallBack ==
    \A c \in 1..Len(gujarati_messages) :
        LET source == split_sections(english_messages[c])
            lines == link_lines(post_link(english_message_links[c]))
            target == split_sections(StripSuffix(gujarati_messages[c], lines))
        IN /\ EndsWith(gujarati_messages[c], lines)
           /\ Len(target) = Len(source)
           /\ \A k \in 1..Len(source) :
                 IF has_content(source[k])
                 THEN /\ k \in translation_errs[c] => target[k] = source[k]
                      /\ k \notin translation_errs[c] =>
                            target[k] = translate(source[k]) /\ target[k] # source[k]
                 ELSE target[k] = source[k]
           /\ \E p \in GujaratiSends : log[p].chunk = c /\ log[p].result # "raised"

C13_Witness ==
    /\ pc = "returned"
    /\ \E c \in 1..Len(gujarati_messages) :
          /\ translation_errs[c] # {}
          /\ translation_errs[c] # content_sections(english_messages[c])

\* the number of characters of chars in the runs lo..hi of s
RECURSIVE CountRuns(_, _, _, _)
CountRuns(s, chars, lo, hi) ==
    IF lo > hi THEN 0
    ELSE IF lo = hi THEN (IF s[lo][1] \in chars THEN s[lo][2] ELSE 0)
    ELSE LET mid == (lo + hi) \div 2 IN
         CountRuns(s, chars, lo, mid) + CountRuns(s, chars, mid + 1, hi)

Backslashes(s) == CountRuns(s, {"bs"}, 1, Len(s))

ReservedCharacters(s) == CountRuns(s, EscapeChars, 1, Len(s))

\* every backslash of s stands alone, in front of a reserved character
SinglyEscaped(s) ==
    \A i \in 1..Len(s) :
        s[i][1] = "bs" => /\ s[i][2] = 1
                          /\ i < Len(s)
                          /\ s[i + 1][1] \in EscapeChars

\* the backslashes the block of a container holds when each of its three
\* texts is escaped once: one per reserved character, and the separator's
BlockEscapes(container) ==
    IF question_message(container) = Empty THEN 0
    ELSE LET hits == MatchingOptions(container) IN
         SepDashes
         + ReservedCharacters(container.question_text)
         + (IF hits = {} THEN 0
            ELSE ReservedCharacters(
                     container.options[CHOOSE k \in hits : \A g \in hits : k <= g]))
         + ReservedCharacters(IF container.has_explanation
                              THEN container.explanation ELSE NoExplanation)

RECURSIVE SumBlockEscapes(_)
SumBlockEscapes(containers) ==
    IF containers = <<>> THEN 0
    ELSE BlockEscapes(Head(containers)) + SumBlockEscapes(Tail(containers))

\* C15: the escaper is applied once to each fragment: the message holds one
\* backslash per reserved character of the question, answer and explanation
\* texts (besides those of the header and the separators), the footer one
\* per reserved character of the promotional text, and in every text sent
\* to either channel each backslash stands alone before a reserved
\* character.  The texts of the page hold no backslash of their own.
C15_EscapedExactlyOnce ==
    /\ ~message_english.none =>
          Backslashes(message_english.text) = 1 + SumBlockEscapes(soup)
    /\ Backslashes(promotional_message_english) = ReservedCharacters(PromotionalText)
    /\ \A c \in 1..Len(english_messages) : SinglyEscaped(english_messages[c])
    /\ \A c \in 1..Len(gujarati_messages) : SinglyEscaped(gujarati_messages[c])

C15_Witness ==
    /\ pc = "returned"
    /\ Len(soup) = 2
    /\ soup[1] = PlainContainer
    /\ Len(gujarati_messages) = 1
    /\ translation_errs[1] = {}

\* C19: a message for the Gujarati channel is within the limit of 4096 bytes
\* whenever the English chunk it was made from is.
C19_TargetWithinLimit ==
    \A c \in 1..Len(gujarati_messages) :
        utf8_len(english_messages[c]) <= DefaultMaxLength =>
            utf8_len(gujarati_messages[c]) <= DefaultMaxLength

\* C20: when the block of every question fits a message together with the
\* header and the footer, every chunk of the page's message is within the
\* budget.
C20_SplitAtFormatterSeparators ==
    (pc \in {"translate", "returned"}
     /\ \A k \in 1..Len(soup) :
           utf8_len(message_header(DateText)) + utf8_len(question_message(soup[k]))
             + utf8_len(promotional_message_english) <= DefaultMaxLength) =>
        \A c \in 1..Len(english_messages) :
            utf8_len(english_messages[c]) <= DefaultMaxLength

=============================================================================
